---- MODULE Spec2Model ----
(***************************************************************************)
(* Nova Bank: the chat orchestrator (ChatModal.handleSend) and the account *)
(* operations of App (transferMoney, makeAccountPayment,                   *)
(* requestPaymentExtension, addCardToUser, addLoanToUser) running against  *)
(* one shared Firestore ledger from two client sessions of the same user,  *)
(* and the insights cache of App (loadOrGenerateInsights, refreshInsights).*)
(* Money is counted in whole units and due dates in days.                  *)
(***************************************************************************)
EXTENDS Integers, Sequences, FiniteSets, TLC

\* ---------------------------------------------------------------- bounds
MaxCalls == 2        \* tool calls the chat service requests from the chat of s1
MaxDirect == 2       \* tool calls dispatched by the sessions outside a chat turn
MaxRefresh == 1      \* refreshUserData presses
MaxAnalyses == 2     \* analyses requested from the AI service
MaxDebits == 3       \* debit transactions in the user's history

\* ------------------------------------------------------ program constants
InitialBalance == 3      \* registerUser: balance of a new user (scaled)
ExtensionDays == 14      \* requestPaymentExtension: getDate() + 14
MinimumPayment == 1      \* card.minimumPayment (scaled)
MonthlyPayment == 1      \* loan.monthlyPayment (scaled)
LoanPrincipal == 2       \* loanAmount of an application (scaled)
MinDebits == 3           \* getComprehensiveInsights: fewer debits, no analysis
InitialDebits == 2       \* debit transactions generated with the first card

Sessions == {"s1", "s2"}
Users == {"a", "b", "c"}
Me == "a"                \* both sessions are logged in as user a
CardLast4 == "c1"        \* last four digits of a's card
LoanId == "l1"           \* id of a's loan

\* (variant: the floor at 0 is missing)
NoFloor(x, y) == y

Max(x, y) == IF x >= y THEN x ELSE y

\* ------------------------------------------------------------ tool calls
sensitiveActions ==
    {"initiatePayment", "makeAccountPayment", "applyForCreditCard",
     "applyForLoan", "requestPaymentExtension"}

readOnlyTools ==
    {"getCardStatementDetails", "getCardTransactions", "getAccountBalance",
     "getAccountTransactions", "getExistingSpendingInsights"}

Call(n, to, amt, id, ty, pt) ==
    [name |-> n, to |-> to, amount |-> amt, accountId |-> id,
     accountType |-> ty, paymentType |-> pt]

\* the calls dispatched by the sessions: every ledger tool, with arguments
\* that reach each branch of the operation behind it
TransferCalls ==
    {Call("initiatePayment", "b", 1, "-", "-", "-"),
     Call("initiatePayment", "b", 2, "-", "-", "-")}
PaymentCalls ==
    {Call("makeAccountPayment", "-", 0, CardLast4, "card", "statement"),
     Call("makeAccountPayment", "-", 0, CardLast4, "card", "full"),
     Call("makeAccountPayment", "-", 3, CardLast4, "card", "custom"),
     Call("makeAccountPayment", "-", 0, LoanId, "loan", "minimum"),
     Call("makeAccountPayment", "-", 0, LoanId, "loan", "full"),
     Call("makeAccountPayment", "-", 3, LoanId, "loan", "custom"),
     Call("makeAccountPayment", "-", 0, LoanId, "loan", "custom")}
ExtensionCalls ==
    {Call("requestPaymentExtension", "-", 0, CardLast4, "card", "-"),
     Call("requestPaymentExtension", "-", 0, LoanId, "loan", "-")}
ApplicationCalls ==
    {Call(n, "-", 0, "-", "-", "-") : n \in {"applyForCreditCard", "applyForLoan"}}
ReadOnlyCalls ==
    {Call(n, "-", 0, "-", "-", "-") : n \in readOnlyTools}
LedgerCalls ==
    TransferCalls \cup PaymentCalls \cup ExtensionCalls \cup ApplicationCalls
\* the calls that spend the cash balance
FundsCalls == TransferCalls \cup PaymentCalls
\* transfers to an identifier that two users carry in different fields, to a
\* known user, and to nobody
RecipientCalls ==
    {Call("initiatePayment", "k", 1, "-", "-", "-"),
     Call("initiatePayment", "b", 1, "-", "-", "-"),
     Call("initiatePayment", "x", 1, "-", "-", "-")}
\* payments of every type, and payments towards accounts the user does not hold
AccountCalls ==
    PaymentCalls
    \cup {Call("makeAccountPayment", "-", 0, CardLast4, "card", "minimum"),
          Call("makeAccountPayment", "-", 0, "zz", "card", "full"),
          Call("makeAccountPayment", "-", 0, "zz", "loan", "full")}
\* the calls the chat service requests in the conversation of s1
ChatCalls ==
    {Call("initiatePayment", "b", 1, "-", "-", "-"),
     Call("initiatePayment", "x", 1, "-", "-", "-"),
     Call("makeAccountPayment", "-", 0, CardLast4, "card", "full"),
     Call("makeAccountPayment", "-", 0, LoanId, "loan", "full"),
     Call("requestPaymentExtension", "-", 0, CardLast4, "card", "-"),
     Call("requestPaymentExtension", "-", 0, LoanId, "loan", "-")}
    \cup ApplicationCalls \cup ReadOnlyCalls

\* ------------------------------------------------------------------ state
VARIABLES
    balance,        \* users/{uid}.balance in the store
    card,           \* users/a/cards/{c1}: creditBalance, statementBalance, paymentDueDate
    loan,           \* users/a/loans/{l1}: remainingBalance, status, paymentDueDate
    issuedCards,    \* card documents written by addCardToUser
    issuedLoans,    \* loan documents written by addLoanToUser
    currentUser,    \* per session: the React state currentUser (the local cache)
    closure,        \* per session: the currentUser captured by the running handler
    op,             \* per session: the account operation in flight
    directCalls,    \* tool calls dispatched so far outside a chat turn
    refreshes,      \* refreshUserData presses so far
    log             \* the transactions collection, in order of creation

ledgerVars ==
    <<balance, card, loan, issuedCards, issuedLoans, currentUser, closure, op,
      directCalls, refreshes, log>>

\* the state of ChatModal in session s1
VARIABLES
    isLoading,              \* the isLoading state of ChatModal
    pc,                     \* where handleSend is suspended
    pass,                   \* 1: the stream of the prompt, 2: of the responses
    collected,              \* collectedFunctionCalls of the open stream
    functionCalls,          \* the calls returned by the first streamAndHandle
    idx,                    \* iteration of the for loop over functionCalls
    functionResponseParts,  \* the response parts pushed so far
    requested,              \* calls the chat service has requested so far
    events,                 \* this turn's messages, gate results and dispatches
    secondPass,             \* the messages of the second streaming calls sent
    dropped,                \* calls returned by the second streamAndHandle
    outcome                 \* how the last turn ended

chatVars ==
    <<isLoading, pc, pass, collected, functionCalls, idx, functionResponseParts,
      requested, events, secondPass, dropped, outcome>>

\* the conversation window and the spending insights of session s1
VARIABLES
    isOpen,             \* the isOpen prop of ChatModal; chat is null while closed
    insightsDoc,        \* users/a/insights/latest: 0 if absent, else its generation
    insightsData,       \* the insightsData state of App: 0 if null
    isInsightsLoading,  \* the isInsightsLoading state of App
    load,               \* per caller: its loadOrGenerateInsights call in flight
    refresh,            \* the refreshInsights call in flight
    aiCalls,            \* analysis requests sent to the AI service so far
    history,            \* debit transactions of a in the store (savings and cards)
    transactions        \* those of them loaded into the state of App

sideVars ==
    <<isOpen, insightsDoc, insightsData, isInsightsLoading, load, refresh, aiCalls,
      history, transactions>>

vars ==
    <<balance, card, loan, issuedCards, issuedLoans, currentUser, closure, op,
      directCalls, refreshes, log, isLoading, pc, pass, collected, functionCalls, idx,
      functionResponseParts, requested, events, secondPass, dropped, outcome,
      isOpen, insightsDoc, insightsData, isInsightsLoading, load, refresh, aiCalls,
      history, transactions>>

\* who calls loadOrGenerateInsights: the effect of InsightsScreen,
\* refreshInsights, and the getSpendingAnalysis tool
Callers == {"screen", "refresh", "tool"}

\* a loadOrGenerateInsights call: the isInsightsLoading and the transactions
\* its closure captured (seen, debits), what the store held when it started
\* (hist), the document its get found (-1: not read yet, 0: none), the
\* analysis it requested (gen), the document it wrote and returned
NoLoad ==
    [pc |-> "idle", seen |-> FALSE, debits |-> 0, hist |-> 0, found |-> -1,
     gen |-> 0, wrote |-> 0, result |-> 0, noop |-> FALSE, err |-> "-"]

\* a refreshInsights call: the document of the cache when it was invoked (pre)
NoRefresh ==
    [pc |-> "idle", debits |-> 0, pre |-> 0, noop |-> FALSE, deleted |-> FALSE,
     err |-> "-"]

NoCall == Call("none", "-", 0, "-", "-", "-")

\* a document of the transactions collection
Transaction(uid, type, amount, timestamp) ==
    [uid |-> uid, type |-> type, amount |-> amount, timestamp |-> timestamp]

\* new Date(): time advances with every tool call requested
Now == directCalls + requested

NoOp ==
    [name |-> "none", pc |-> "idle", call |-> NoCall, rcpt |-> "-", rbal |-> 0,
     due |-> 0, timestamp |-> 0, res |-> "none", err |-> "-",
     seen |-> -1, paid |-> 0, dS |-> 0, dR |-> 0, dDue |-> 0,
     recs |-> <<>>, credited |-> FALSE, stored |-> FALSE]

\* the operation returns {success, message} to its caller
Return(o, ok, err) ==
    [o EXCEPT !.pc = "ret", !.res = IF ok THEN "ok" ELSE "fail", !.err = err]

\* the operation's promise rejects: the exception leaves the operation
Throw(o) == [o EXCEPT !.pc = "ret", !.res = "threw", !.err = "StoreError"]

StoreSnapshot == [balance |-> balance[Me], card |-> card, loan |-> loan]

\* ---------------------------------------------------------- transferMoney
\* the users collection: the fields the five queries compare
Directory ==
    [u \in Users |->
        CASE u = "a" -> [name |-> "a", savingsAccountNumber |-> "1001",
                         email |-> "a@nova", phone |-> "555-1", username |-> "ann"]
          [] u = "b" -> [name |-> "b", savingsAccountNumber |-> "k",
                         email |-> "b@nova", phone |-> "555-2", username |-> "bob"]
          [] OTHER   -> [name |-> "k", savingsAccountNumber |-> "1003",
                         email |-> "c@nova", phone |-> "555-3", username |-> "cy"]]

\* recipientIdentifier.toLowerCase()
ToLowerCase(v) ==
    CASE v = "K" -> "k"
      [] v = "B" -> "b"
      [] OTHER -> v

\* usersRef.where(field, "==", value).get(): the matching documents
Query(field, value) == {u \in Users : Directory[u][field] = value}

\* q1 .. q5 of transferMoney, in the order they are passed to Promise.all
RecipientQueries(rid) ==
    <<Query("name", rid), Query("savingsAccountNumber", rid), Query("email", rid),
      Query("phone", rid), Query("username", ToLowerCase(rid))>>

\* results.flatMap(snap => snap.docs)[0]: a document of the first query that
\* returned one
ResolveRecipient(rid) ==
    LET results == RecipientQueries(rid)
        hits == {i \in 1..Len(results) : results[i] # {}} IN
    IF hits = {} THEN "none"
    ELSE LET first == CHOOSE i \in hits : \A j \in hits : i <= j IN
         CHOOSE u \in results[first] : TRUE

\* the part of transferMoney before its first await
transferMoney(view, c) ==
    LET o == [NoOp EXCEPT !.name = "transferMoney", !.call = c] IN
    IF c.amount <= 0 THEN {Return(o, FALSE, "InvalidAmount")}
    ELSE IF view.balance < c.amount THEN {Return(o, FALSE, "InsufficientFunds")}
    ELSE {[o EXCEPT !.pc = "lookup"]}

\* (variant: the check trusts the cached balance instead of the live one)
HasFundsCached(live, cached, amount) == cached >= amount

\* the check of the live cash balance inside the store transaction
HasFundsInTransaction(live, cached, amount) == live >= amount

\* await Promise.all([q1.get(), ..., q5.get()]) returned
TransferLookup(s) ==
    /\ op[s].name = "transferMoney" /\ op[s].pc = "lookup"
    /\ LET o == op[s]
           r == ResolveRecipient(o.call.to) IN
       \/ op' = [op EXCEPT ![s] = Throw(o)]
       \/ op' = [op EXCEPT ![s] =
             IF r = "none" THEN Return(o, FALSE, "RecipientNotFound")
             ELSE IF r = Me THEN Return(o, FALSE, "SelfTransfer")
             ELSE [o EXCEPT !.pc = "tx", !.rcpt = r, !.rbal = balance[r]]]
    /\ UNCHANGED <<balance, card, loan, issuedCards, issuedLoans, currentUser,
                   closure, directCalls, refreshes, log>>

\* db.runTransaction of transferMoney commits or throws
TransferCommit(s) ==
    /\ op[s].name = "transferMoney" /\ op[s].pc = "tx"
    /\ LET o == op[s]
           amount == o.call.amount
           live == balance[Me] IN
       \/ /\ op' = [op EXCEPT ![s] = Return([o EXCEPT !.seen = live], FALSE, "StoreError")]
          /\ UNCHANGED balance
       \/ /\ ~HasFundsInTransaction(live, closure[s].balance, amount)
          /\ op' = [op EXCEPT ![s] =
                Return([o EXCEPT !.seen = live, !.paid = amount], FALSE,
                       "InsufficientFunds")]
          /\ UNCHANGED balance
       \/ /\ HasFundsInTransaction(live, closure[s].balance, amount)
          /\ balance' = [balance EXCEPT ![Me] = live - amount,
                                        ![o.rcpt] = o.rbal + amount]
          /\ op' = [op EXCEPT ![s] =
                [o EXCEPT !.pc = "add1", !.timestamp = Now,
                          !.seen = live, !.paid = amount,
                          !.dS = (live - amount) - balance[Me],
                          !.dR = (o.rbal + amount) - balance[o.rcpt]]]
    /\ UNCHANGED <<card, loan, issuedCards, issuedLoans, currentUser, closure,
                   directCalls, refreshes, log>>

\* the first transactionsRef.add (the sender's debit record) returned
TransferLogDebit(s) ==
    /\ op[s].name = "transferMoney" /\ op[s].pc = "add1"
    /\ LET o == op[s]
           debit == Transaction(Me, "debit", o.call.amount, o.timestamp) IN
       \/ /\ op' = [op EXCEPT ![s] = Return(o, FALSE, "StoreError")]
          /\ UNCHANGED log
       \/ /\ log' = Append(log, debit)
          /\ op' = [op EXCEPT ![s] =
                [o EXCEPT !.pc = "add2", !.recs = Append(o.recs, debit)]]
    /\ UNCHANGED <<balance, card, loan, issuedCards, issuedLoans, currentUser,
                   closure, directCalls, refreshes>>

\* the second transactionsRef.add returned; setCurrentUser; return success
TransferLogCredit(s) ==
    /\ op[s].name = "transferMoney" /\ op[s].pc = "add2"
    /\ LET o == op[s]
           credit == Transaction(o.rcpt, "credit", o.call.amount, o.timestamp) IN
       \/ /\ op' = [op EXCEPT ![s] = Return(o, FALSE, "StoreError")]
          /\ UNCHANGED <<currentUser, log>>
       \/ /\ log' = Append(log, credit)
          /\ op' = [op EXCEPT ![s] =
                Return([o EXCEPT !.recs = Append(o.recs, credit)], TRUE, "-")]
          /\ currentUser' = [currentUser EXCEPT
                ![s].balance = currentUser[s].balance - o.call.amount]
    /\ UNCHANGED <<balance, card, loan, issuedCards, issuedLoans, closure,
                   directCalls, refreshes>>

\* ----------------------------------------------------- makeAccountPayment
\* the part of makeAccountPayment before db.runTransaction is awaited
makeAccountPayment(view, c) ==
    {[NoOp EXCEPT !.name = "makeAccountPayment", !.call = c, !.pc = "tx"]}

\* currentUser.cards.find(c => c.cardNumber.slice(-4) === accountId)
FindCard(view, accountId) == accountId = CardLast4

\* currentUser.loans.find(l => l.id === accountId)
FindLoan(view, accountId) == accountId = LoanId

\* customAmount || 0
CustomAmount(c) == IF c.paymentType = "custom" THEN c.amount ELSE 0

\* switch(paymentType) of the card branch
CardPaymentAmount(view, c) ==
    CASE c.paymentType = "minimum" -> MinimumPayment
      [] c.paymentType = "statement" -> view.card.statementBalance
      [] c.paymentType = "full" -> view.card.creditBalance
      [] c.paymentType = "custom" -> CustomAmount(c)
      [] OTHER -> 0

\* switch(paymentType) of the loan branch, before the clamp
LoanPaymentAmount(view, c) ==
    CASE c.paymentType = "minimum" -> MonthlyPayment
      [] c.paymentType = "full" -> view.loan.remainingBalance
      [] c.paymentType = "custom" -> CustomAmount(c)
      [] OTHER -> MonthlyPayment

\* if (paymentAmount > loan.remainingBalance) paymentAmount = loan.remainingBalance
ClampToLoan(amount, remaining) == IF amount > remaining THEN remaining ELSE amount

\* (variant: the debit is written before the callback throws)
PaymentFailureDebited(live, amount) == live - amount

\* the callback throws before any t.update: the stored balance after the abort
PaymentFailure(live, amount) == live

\* (variant: a payment that leaves a balance re-opens the loan)
LoanStatusReopened(newRemainingBalance, status) ==
    IF newRemainingBalance <= 0 THEN "Paid Off" ELSE "Active"

\* if (newRemainingBalance <= 0) t.update(loanRef, { status: 'Paid Off' })
LoanStatusAfter(newRemainingBalance, status) ==
    IF newRemainingBalance <= 0 THEN "Paid Off" ELSE status

\* the transaction callback of makeAccountPayment runs and commits, or throws
PaymentCommit(s) ==
    /\ op[s].name = "makeAccountPayment" /\ op[s].pc = "tx"
    /\ LET o == op[s]
           c == o.call
           view == closure[s]
           live == balance[Me]
           fail(e, amt) ==
               /\ op' = [op EXCEPT ![s] =
                     Return([o EXCEPT !.seen = live, !.paid = amt], FALSE, e)]
               /\ balance' = [balance EXCEPT ![Me] = PaymentFailure(live, amt)]
               /\ UNCHANGED <<card, loan>> IN
       \/ fail("StoreError", 0)
       \/ /\ c.accountType = "card"
          /\ LET amount == CardPaymentAmount(view, c) IN
             IF ~FindCard(view, c.accountId) THEN fail("AccountNotFound", 0)
             ELSE IF amount <= 0 THEN fail("InvalidAmount", 0)
             ELSE IF ~HasFundsInTransaction(live, view.balance, amount)
                  THEN fail("InsufficientFunds", amount)
             ELSE /\ balance' = [balance EXCEPT ![Me] = live - amount]
                  /\ card' = [card EXCEPT
                        !.creditBalance = Max(0, view.card.creditBalance - amount),
                        !.statementBalance = Max(0, view.card.statementBalance - amount)]
                  /\ UNCHANGED loan
                  /\ op' = [op EXCEPT ![s] =
                        Return([o EXCEPT !.seen = live, !.paid = amount], TRUE, "-")]
       \/ /\ c.accountType # "card"
          /\ LET resolved == LoanPaymentAmount(view, c)
                 amount == ClampToLoan(resolved, view.loan.remainingBalance)
                 newRemainingBalance == view.loan.remainingBalance - amount IN
             IF ~FindLoan(view, c.accountId) THEN fail("AccountNotFound", 0)
             ELSE IF resolved <= 0 THEN fail("InvalidAmount", 0)
             ELSE IF ~HasFundsInTransaction(live, view.balance, amount)
                  THEN fail("InsufficientFunds", amount)
             ELSE /\ balance' = [balance EXCEPT ![Me] = live - amount]
                  /\ loan' = [loan EXCEPT
                        !.remainingBalance = newRemainingBalance,
                        !.status = LoanStatusAfter(newRemainingBalance, loan.status)]
                  /\ UNCHANGED card
                  /\ op' = [op EXCEPT ![s] =
                        Return([o EXCEPT !.seen = live, !.paid = amount], TRUE, "-")]
    /\ UNCHANGED <<issuedCards, issuedLoans, currentUser, closure, directCalls,
                   refreshes, log>>

\* ------------------------------------------------ requestPaymentExtension
\* new Date(originalDueDate.setDate(originalDueDate.getDate() + 14))
ExtendedDueDate(due) == due + ExtensionDays

\* the part of requestPaymentExtension before docRef.update is awaited
requestPaymentExtension(view, c) ==
    LET o == [NoOp EXCEPT !.name = "requestPaymentExtension", !.call = c] IN
    {Return(o, FALSE, "Rejected")}
    \cup
    (IF c.accountType = "card"
     THEN IF FindCard(view, c.accountId)
          THEN {[o EXCEPT !.pc = "update",
                          !.due = ExtendedDueDate(view.card.paymentDueDate)]}
          ELSE {Return(o, FALSE, "AccountNotFound")}
     ELSE IF FindLoan(view, c.accountId)
          THEN {[o EXCEPT !.pc = "update",
                          !.due = ExtendedDueDate(view.loan.paymentDueDate)]}
          ELSE {Return(o, FALSE, "AccountNotFound")})

\* docRef.update({paymentDueDate}) returned or threw
ExtensionUpdate(s) ==
    /\ op[s].name = "requestPaymentExtension" /\ op[s].pc = "update"
    /\ LET o == op[s] IN
       \/ /\ op' = [op EXCEPT ![s] = Throw(o)]
          /\ UNCHANGED <<card, loan>>
       \/ /\ o.call.accountType = "card"
          /\ card' = [card EXCEPT !.paymentDueDate = o.due]
          /\ UNCHANGED loan
          /\ op' = [op EXCEPT ![s] =
                Return([o EXCEPT !.dDue = o.due - card.paymentDueDate], TRUE, "-")]
       \/ /\ o.call.accountType # "card"
          /\ loan' = [loan EXCEPT !.paymentDueDate = o.due]
          /\ UNCHANGED card
          /\ op' = [op EXCEPT ![s] =
                Return([o EXCEPT !.dDue = o.due - loan.paymentDueDate], TRUE, "-")]
    /\ UNCHANGED <<balance, issuedCards, issuedLoans, currentUser, closure,
                   directCalls, refreshes, log>>

\* ------------------------------------------- addCardToUser, addLoanToUser
\* the part of addCardToUser before the card document's set is awaited
addCardToUser(view, c) ==
    LET o == [NoOp EXCEPT !.name = "addCardToUser", !.call = c] IN
    {Return(o, FALSE, "Rejected"), [o EXCEPT !.pc = "set"]}

\* the card document's set returned or threw
CardSet(s) ==
    /\ op[s].name = "addCardToUser" /\ op[s].pc = "set"
    /\ \/ /\ op' = [op EXCEPT ![s] = Throw(op[s])]
          /\ UNCHANGED issuedCards
       \/ /\ issuedCards' = issuedCards + 1
          /\ op' = [op EXCEPT ![s] = Return(op[s], TRUE, "-")]
    /\ UNCHANGED <<balance, card, loan, issuedLoans, currentUser, closure,
                   directCalls, refreshes, log>>

\* the part of addLoanToUser before db.runTransaction is awaited
addLoanToUser(view, c) ==
    LET o == [NoOp EXCEPT !.name = "addLoanToUser", !.call = c] IN
    {Return(o, FALSE, "Rejected"), [o EXCEPT !.pc = "tx"]}

\* the transaction crediting the principal committed or threw
LoanCredit(s) ==
    /\ op[s].name = "addLoanToUser" /\ op[s].pc = "tx"
    /\ \/ /\ op' = [op EXCEPT ![s] = Throw(op[s])]
          /\ UNCHANGED balance
       \/ /\ balance' = [balance EXCEPT ![Me] = balance[Me] + LoanPrincipal]
          /\ op' = [op EXCEPT ![s].pc = "set", ![s].credited = TRUE]
    /\ UNCHANGED <<card, loan, issuedCards, issuedLoans, currentUser, closure,
                   directCalls, refreshes, log>>

\* the loan document's set returned or threw; setCurrentUser; return success
LoanSet(s) ==
    /\ op[s].name = "addLoanToUser" /\ op[s].pc = "set"
    /\ \/ /\ op' = [op EXCEPT ![s] = Throw(op[s])]
          /\ UNCHANGED <<issuedLoans, currentUser>>
       \/ /\ issuedLoans' = issuedLoans + 1
          /\ currentUser' = [currentUser EXCEPT
                ![s].balance = currentUser[s].balance + LoanPrincipal]
          /\ op' = [op EXCEPT ![s] = Return([op[s] EXCEPT !.stored = TRUE], TRUE, "-")]
    /\ UNCHANGED <<balance, card, loan, issuedCards, closure, directCalls,
                   refreshes, log>>

\* one step of the account operation in flight in session s
OperationStep(s) ==
    \/ TransferLookup(s)
    \/ TransferCommit(s)
    \/ TransferLogDebit(s)
    \/ TransferLogCredit(s)
    \/ PaymentCommit(s)
    \/ ExtensionUpdate(s)
    \/ CardSet(s)
    \/ LoanCredit(s)
    \/ LoanSet(s)

\* -------------------------------------------------------- refreshUserData
\* loadUserAndData: the session's cache is replaced by the store's documents
refreshUserData(s) ==
    /\ refreshes < MaxRefresh
    /\ refreshes' = refreshes + 1
    /\ currentUser' = [currentUser EXCEPT ![s] = StoreSnapshot]
    /\ UNCHANGED <<balance, card, loan, issuedCards, issuedLoans, closure, op,
                   directCalls, log>>

\* ----------------------------------------------------- handleFunctionCall
\* the resultForModel.success of a read-only tool
ReadOnlySuccess(name) ==
    CASE name \in {"getCardStatementDetails", "getCardTransactions"} -> "undefined"
      [] name \in {"getAccountBalance", "getAccountTransactions"} -> "true"
      [] OTHER -> "false"

\* handleFunctionCall up to its first await: the operation it dispatches to
handleFunctionCall(view, c) ==
    CASE c.name = "initiatePayment" -> transferMoney(view, c)
      [] c.name = "makeAccountPayment" -> makeAccountPayment(view, c)
      [] c.name = "requestPaymentExtension" -> requestPaymentExtension(view, c)
      [] c.name = "applyForCreditCard" -> addCardToUser(view, c)
      [] c.name = "applyForLoan" -> addLoanToUser(view, c)
      [] OTHER -> {[NoOp EXCEPT !.name = "readOnly", !.call = c, !.pc = "ret",
                                !.res = ReadOnlySuccess(c.name)]}

\* resultForModel.success as handed back to the chat service
ResultSuccess(o) ==
    CASE o.res = "ok" -> "true"
      [] o.res = "fail" -> "false"
      [] OTHER -> o.res

\* --------------------------------------------- calls outside a chat turn
\* the chat of session s, its previous call returned, dispatches an authorised
\* tool call
SessionCall(s, c) ==
    /\ op[s].pc \in {"idle", "ret"}
    /\ directCalls < MaxDirect
    /\ directCalls' = directCalls + 1
    /\ closure' = [closure EXCEPT ![s] = currentUser[s]]
    /\ \E o \in handleFunctionCall(currentUser[s], c) :
          op' = [op EXCEPT ![s] = o]
    /\ UNCHANGED <<balance, card, loan, issuedCards, issuedLoans, currentUser,
                   refreshes, log>>

\* ------------------------------------------------- ChatModal (session s1)
ledgerRest ==
    <<balance, card, loan, issuedCards, issuedLoans, currentUser, directCalls,
      refreshes, log>>

Event(e, k) == [ev |-> e, k |-> k]

\* how navigator.credentials.get can end, or that no passkey is registered
GateOutcomes == {"assertion", "null", "error", "noPasskey"}

\* verifyCurrentUserWithPasskey: true only for an assertion
verifyCurrentUserWithPasskey(g) == g = "assertion"

\* (variant: the result of the gate is ignored)
GateNeverDenies(isVerified) == FALSE

\* if (!isVerified): the call is cancelled
GateDenies(isVerified) == ~isVerified

\* (variant: the calls are taken from the end of the list)
RequestIndexReversed(n, p) == n + 1 - p

\* for (const call of functionCalls): iteration p handles the p-th request
RequestIndex(n, p) == p

\* (variant: break instead of continue)
AfterDenialBreak(p, n) == n + 1

\* continue: the iteration that follows the denial in iteration p
AfterDenial(p, n) == p + 1

\* the functionResponse pushed for a denied call
CancelledPart(c, k) ==
    [name |-> c.name, success |-> "false", cancelled |-> TRUE, k |-> k]

\* the functionResponse pushed for an executed call
ResultPart(c, k, o) ==
    [name |-> c.name, success |-> ResultSuccess(o), cancelled |-> FALSE, k |-> k]

\* (variant: the second stream is opened whatever the first returned)
AlwaysSecondPass(calls) == TRUE

\* if (functionCalls.length > 0): the calls are processed and answered
NeedsSecondPass(calls) == Len(calls) > 0

\* (variant: the error is swallowed without a message)
CatchSilently(evs) == evs

\* the catch block of handleSend: one chatError message
CatchMessages(evs) == Append(evs, Event("chatError", 0))

\* (variant: a verification obtained earlier in the turn still counts)
NeedsChallengeOnce(c, evs) ==
    /\ c.name \in sensitiveActions
    /\ ~\E i \in 1..Len(evs) : evs[i].ev = "verified"

\* if (sensitiveActions.includes(call.name)): the call is challenged
NeedsChallenge(c, evs) == c.name \in sensitiveActions

\* await handleFunctionCall(call) is entered for request k in iteration p
Dispatch(c, k, p, parts, evs) ==
    /\ pc' = "exec"
    /\ idx' = p
    /\ functionResponseParts' = parts
    /\ events' = Append(evs, Event("invoke", k))
    /\ \E o \in handleFunctionCall(closure["s1"], c) :
          op' = [op EXCEPT !["s1"] = o]
    /\ UNCHANGED <<pass, collected, secondPass, isLoading, outcome>>

\* the for loop reaches iteration p, or ends and sends the response parts
Iterate(calls, p, parts, evs) ==
    IF p > Len(calls) \/ p < 1
    THEN /\ pc' = "stream"
         /\ pass' = 2
         /\ collected' = <<>>
         /\ idx' = p
         /\ functionResponseParts' = parts
         /\ events' = evs
         /\ secondPass' = Append(secondPass, parts)
         /\ op' = [op EXCEPT !["s1"] = NoOp]
         /\ UNCHANGED <<isLoading, outcome>>
    ELSE LET k == RequestIndex(Len(calls), p)
             c == calls[k] IN
         IF NeedsChallenge(c, evs)
         THEN /\ pc' = "gate"
              /\ idx' = p
              /\ functionResponseParts' = parts
              /\ events' = Append(evs, Event("confirm", k))
              /\ op' = [op EXCEPT !["s1"] = NoOp]
              /\ UNCHANGED <<pass, collected, secondPass, isLoading, outcome>>
         ELSE Dispatch(c, k, p, parts, evs)

\* (variant: the finally block forgets setIsLoading(false))
FinishStillLoading(how, evs) ==
    /\ outcome' = how
    /\ events' = evs
    /\ isLoading' = TRUE
    /\ pc' = "idle"

\* the finally block of handleSend
Finish(how, evs) ==
    /\ outcome' = how
    /\ events' = evs
    /\ isLoading' = FALSE
    /\ pc' = "idle"

\* handleSend(prompt) with a non-blank prompt: the first stream is opened
handleSend ==
    /\ ~isLoading /\ isOpen
    /\ isLoading' = TRUE
    /\ pc' = "stream"
    /\ pass' = 1
    /\ collected' = <<>>
    /\ functionCalls' = <<>>
    /\ idx' = 0
    /\ functionResponseParts' = <<>>
    /\ events' = <<Event("user", 0)>>
    /\ secondPass' = <<>>
    /\ dropped' = <<>>
    /\ outcome' = "running"
    /\ closure' = [closure EXCEPT !["s1"] = currentUser["s1"]]
    /\ UNCHANGED <<op, requested>>
    /\ UNCHANGED ledgerRest

\* a chunk of the open stream carries a function call
StreamChunk(c) ==
    /\ pc = "stream"
    /\ requested < MaxCalls
    /\ requested' = requested + 1
    /\ collected' = Append(collected, c)
    /\ UNCHANGED <<isLoading, pc, pass, functionCalls, idx, functionResponseParts,
                   events, secondPass, dropped, outcome>>
    /\ UNCHANGED <<op, closure>>
    /\ UNCHANGED ledgerRest

\* sendMessageStream or the iteration of the stream throws
StreamFail ==
    /\ pc = "stream"
    /\ Finish("streamError", CatchMessages(events))
    /\ UNCHANGED <<pass, collected, functionCalls, idx, functionResponseParts,
                   requested, secondPass, dropped>>
    /\ UNCHANGED <<op, closure>>
    /\ UNCHANGED ledgerRest

\* the stream ends and streamAndHandle returns collectedFunctionCalls
StreamEnd ==
    /\ pc = "stream"
    /\ \/ /\ pass = 1
          /\ functionCalls' = collected
          /\ IF NeedsSecondPass(collected)
             THEN Iterate(collected, 1, <<>>, events)
             ELSE /\ Finish("normal", events)
                  /\ UNCHANGED <<pass, collected, idx, functionResponseParts,
                                 secondPass, op>>
          /\ UNCHANGED dropped
       \/ /\ pass = 2
          /\ dropped' = collected
          /\ Finish("normal", events)
          /\ UNCHANGED <<pass, collected, functionCalls, idx,
                         functionResponseParts, secondPass, op>>
    /\ UNCHANGED <<requested, closure>>
    /\ UNCHANGED ledgerRest

\* await verifyCurrentUserWithPasskey() returned
GateResolve(g) ==
    /\ pc = "gate"
    /\ LET n == Len(functionCalls)
           k == RequestIndex(n, idx)
           c == functionCalls[k]
           isVerified == verifyCurrentUserWithPasskey(g) IN
       IF GateDenies(isVerified)
       THEN Iterate(functionCalls, AfterDenial(idx, n),
                    Append(functionResponseParts, CancelledPart(c, k)),
                    events \o <<Event("denied", k), Event("cancelled", k)>>)
       ELSE Dispatch(c, k, idx, functionResponseParts,
                     IF isVerified THEN Append(events, Event("verified", k))
                     ELSE Append(events, Event("denied", k)))
    /\ UNCHANGED <<functionCalls, requested, dropped, closure>>
    /\ UNCHANGED ledgerRest

\* await handleFunctionCall(call) returned its result or threw
ExecReturn ==
    /\ pc = "exec"
    /\ op["s1"].pc = "ret"
    /\ LET o == op["s1"]
           n == Len(functionCalls)
           k == RequestIndex(n, idx)
           c == functionCalls[k] IN
       IF o.res = "threw"
       THEN /\ Finish("toolError", CatchMessages(events))
            /\ op' = [op EXCEPT !["s1"] = NoOp]
            /\ UNCHANGED <<pass, collected, idx, functionResponseParts, secondPass>>
       ELSE Iterate(functionCalls, idx + 1,
                    Append(functionResponseParts, ResultPart(c, k, o)),
                    Append(events, Event("result", k)))
    /\ UNCHANGED <<functionCalls, requested, dropped, closure>>
    /\ UNCHANGED ledgerRest

\* ------------------------------------------------------------------- Spec
InitialCard == [creditBalance |-> 2, statementBalance |-> 1, paymentDueDate |-> 0]
InitialLoan ==
    [loanAmount |-> LoanPrincipal, remainingBalance |-> LoanPrincipal,
     status |-> "Active", paymentDueDate |-> 0]

Init ==
    /\ balance = [u \in Users |-> IF u = Me THEN InitialBalance ELSE 0]
    /\ card = InitialCard
    /\ loan = InitialLoan
    /\ issuedCards = 0
    /\ issuedLoans = 0
    /\ currentUser = [s \in Sessions |->
          [balance |-> InitialBalance, card |-> InitialCard, loan |-> InitialLoan]]
    /\ closure = currentUser
    /\ op = [s \in Sessions |-> NoOp]
    /\ directCalls = 0
    /\ refreshes = 0
    /\ log = <<>>
    /\ isLoading = FALSE
    /\ pc = "idle"
    /\ pass = 1
    /\ collected = <<>>
    /\ functionCalls = <<>>
    /\ idx = 0
    /\ functionResponseParts = <<>>
    /\ requested = 0
    /\ events = <<>>
    /\ secondPass = <<>>
    /\ dropped = <<>>
    /\ outcome = "none"
    /\ isOpen = TRUE
    /\ insightsDoc = 0
    /\ insightsData = 0
    /\ isInsightsLoading = FALSE
    /\ load = [who \in Callers |-> NoLoad]
    /\ refresh = NoRefresh
    /\ aiCalls = 0
    /\ history = InitialDebits
    /\ transactions = InitialDebits

Next ==
    \/ handleSend /\ UNCHANGED sideVars
    \/ \E c \in ChatCalls : StreamChunk(c) /\ UNCHANGED sideVars
    \/ StreamFail /\ UNCHANGED sideVars
    \/ StreamEnd /\ UNCHANGED sideVars
    \/ \E g \in GateOutcomes : GateResolve(g) /\ UNCHANGED sideVars
    \/ ExecReturn /\ UNCHANGED sideVars
    \/ OperationStep("s1") /\ UNCHANGED <<chatVars, sideVars>>
    \/ refreshUserData("s1") /\ UNCHANGED <<chatVars, sideVars>>

\* one chat conversation in session s1
Spec == Init /\ [][Next]_vars

NextLedger ==
    \/ \E s \in Sessions : \E c \in LedgerCalls : SessionCall(s, c) /\ UNCHANGED <<chatVars, sideVars>>
    \/ \E s \in Sessions : OperationStep(s) /\ UNCHANGED <<chatVars, sideVars>>
    \/ \E s \in Sessions : refreshUserData(s) /\ UNCHANGED <<chatVars, sideVars>>

\* two client sessions of user a dispatching tool calls concurrently
SpecLedger == Init /\ [][NextLedger]_vars

\* one step of a transfer or payment in flight in session s
FundsStep(s) ==
    \/ TransferLookup(s)
    \/ TransferCommit(s)
    \/ TransferLogDebit(s)
    \/ TransferLogCredit(s)
    \/ PaymentCommit(s)

NextFunds ==
    \/ \E s \in Sessions : \E c \in FundsCalls : SessionCall(s, c) /\ UNCHANGED <<chatVars, sideVars>>
    \/ \E s \in Sessions : FundsStep(s) /\ UNCHANGED <<chatVars, sideVars>>
    \/ \E s \in Sessions : refreshUserData(s) /\ UNCHANGED <<chatVars, sideVars>>

\* two client sessions of user a spending the same cash balance concurrently
SpecFunds == Init /\ [][NextFunds]_vars

\* one step of a transfer in flight in session s
TransferStep(s) ==
    \/ TransferLookup(s)
    \/ TransferCommit(s)
    \/ TransferLogDebit(s)
    \/ TransferLogCredit(s)

NextTransfer ==
    \/ \E c \in RecipientCalls : SessionCall("s1", c) /\ UNCHANGED <<chatVars, sideVars>>
    \/ TransferStep("s1") /\ UNCHANGED <<chatVars, sideVars>>
    \/ refreshUserData("s1") /\ UNCHANGED <<chatVars, sideVars>>

\* session s1 sending money to recipients named by an identifier
SpecTransfer == Init /\ [][NextTransfer]_vars

NextPayment ==
    \/ \E c \in AccountCalls : SessionCall("s1", c) /\ UNCHANGED <<chatVars, sideVars>>
    \/ PaymentCommit("s1") /\ UNCHANGED <<chatVars, sideVars>>
    \/ refreshUserData("s1") /\ UNCHANGED <<chatVars, sideVars>>

\* session s1 paying towards its card and its loan
SpecPayment == Init /\ [][NextPayment]_vars

\* ------------------------------------------- closing the conversation
insightVars ==
    <<insightsDoc, insightsData, isInsightsLoading, load, refresh, aiCalls,
      history, transactions>>

\* the modal is closed: the isOpen effect clears the chat session; a
\* handleSend that is running keeps the session it captured
Close ==
    /\ isOpen
    /\ isOpen' = FALSE
    /\ UNCHANGED <<ledgerVars, chatVars, insightVars>>

\* the modal is opened again: the isOpen effect creates a chat session
Open ==
    /\ ~isOpen
    /\ isOpen' = TRUE
    /\ UNCHANGED <<ledgerVars, chatVars, insightVars>>

\* a transfer, a card application (whose write can throw) and a read-only tool
TurnCalls ==
    {Call("initiatePayment", "b", 1, "-", "-", "-"),
     Call("applyForCreditCard", "-", 0, "-", "-", "-"),
     Call("getAccountBalance", "-", 0, "-", "-", "-")}

\* one step of the operation a TurnCalls call dispatched in session s
TurnStep(s) ==
    \/ TransferStep(s)
    \/ CardSet(s)

NextTurn ==
    \/ handleSend /\ UNCHANGED sideVars
    \/ \E c \in TurnCalls : StreamChunk(c) /\ UNCHANGED sideVars
    \/ StreamFail /\ UNCHANGED sideVars
    \/ StreamEnd /\ UNCHANGED sideVars
    \/ \E g \in GateOutcomes : GateResolve(g) /\ UNCHANGED sideVars
    \/ ExecReturn /\ UNCHANGED sideVars
    \/ TurnStep("s1") /\ UNCHANGED <<chatVars, sideVars>>
    \/ Close
    \/ Open

\* one chat conversation that the user may close and reopen at any moment
SpecTurn == Init /\ [][NextTurn]_vars

\* every external call of a turn eventually returns or fails: the chat
\* stream, the gate challenge, the store operation and the tool call
TurnFairness ==
    /\ WF_vars((StreamEnd \/ StreamFail) /\ UNCHANGED sideVars)
    /\ WF_vars(\E g \in GateOutcomes : GateResolve(g) /\ UNCHANGED sideVars)
    /\ WF_vars(TurnStep("s1") /\ UNCHANGED <<chatVars, sideVars>>)
    /\ WF_vars(ExecReturn /\ UNCHANGED sideVars)

\* SpecTurn in which external calls return
SpecTurnFair == SpecTurn /\ TurnFairness

\* ------------------------------------------------------ spending insights
notInsights == <<ledgerVars, chatVars, isOpen>>

\* (variant: one debit fewer is enough for an analysis)
EnoughDebitsLess(n) == n >= MinDebits - 1

\* getComprehensiveInsights: with fewer than 3 debits it returns null at once
EnoughDebits(n) == n >= MinDebits

\* (variant: the batch deletes nothing)
DeleteNothing(doc) == doc

\* batch.delete of every document of the snapshot, committed: no document
DeleteAll(doc) == 0

\* the call of caller w is between its setIsInsightsLoading(true) and its finally
InProgress(w) == load[w].pc \in {"get", "ai", "set"}

\* calls in flight that may still request an analysis
Pending ==
    Cardinality({w \in Callers : load[w].pc \in {"turn", "get"}})
    + (IF refresh.pc \in {"get", "delete"} THEN 1 ELSE 0)

\* the analyses requested stay within MaxAnalyses
HasCapacity == aiCalls + Pending < MaxAnalyses

\* loadOrGenerateInsights up to its first await, called by w from a closure
\* that captured isInsightsLoading = seen and debits debit transactions
loadOrGenerateInsights(w, seen, debits) ==
    IF seen
    THEN /\ load' = [load EXCEPT ![w] =
                [NoLoad EXCEPT !.pc = "done", !.seen = TRUE, !.noop = TRUE]]
         /\ UNCHANGED isInsightsLoading
    ELSE /\ load' = [load EXCEPT ![w] =
                [NoLoad EXCEPT !.pc = "get", !.debits = debits, !.hist = history]]
         /\ isInsightsLoading' = TRUE

\* insightsRef.get() returned or threw; without a document and with enough
\* debits the analysis is requested
LoadGet(w) ==
    /\ load[w].pc = "get"
    /\ \/ /\ load' = [load EXCEPT ![w].pc = "done", ![w].debits = 0,
                                  ![w].err = "StoreError"]
          /\ isInsightsLoading' = FALSE
          /\ UNCHANGED <<insightsData, aiCalls>>
       \/ /\ insightsDoc # 0
          /\ load' = [load EXCEPT ![w].pc = "done", ![w].debits = 0,
                                  ![w].found = insightsDoc,
                                  ![w].result = insightsDoc]
          /\ insightsData' = insightsDoc
          /\ isInsightsLoading' = FALSE
          /\ UNCHANGED aiCalls
       \/ /\ insightsDoc = 0
          /\ IF EnoughDebits(load[w].debits)
             THEN /\ aiCalls' = aiCalls + 1
                  /\ load' = [load EXCEPT ![w].pc = "ai", ![w].found = 0,
                                          ![w].gen = aiCalls + 1]
                  /\ UNCHANGED <<insightsData, isInsightsLoading>>
             ELSE /\ load' = [load EXCEPT ![w].pc = "done", ![w].debits = 0,
                                          ![w].found = 0]
                  /\ insightsData' = 0
                  /\ isInsightsLoading' = FALSE
                  /\ UNCHANGED aiCalls
    /\ UNCHANGED <<insightsDoc, refresh, history, transactions>>
    /\ UNCHANGED notInsights

\* generateContent returned an analysis, or failed and null came back
LoadAI(w) ==
    /\ load[w].pc = "ai"
    /\ \/ /\ load' = [load EXCEPT ![w].pc = "set"]
          /\ UNCHANGED <<insightsData, isInsightsLoading>>
       \/ /\ load' = [load EXCEPT ![w].pc = "done", ![w].debits = 0]
          /\ insightsData' = 0
          /\ isInsightsLoading' = FALSE
    /\ UNCHANGED <<insightsDoc, refresh, aiCalls, history, transactions>>
    /\ UNCHANGED notInsights

\* insightsRef.set(newCachedInsights) returned or threw
LoadSet(w) ==
    /\ load[w].pc = "set"
    /\ \/ /\ insightsDoc' = load[w].gen
          /\ insightsData' = load[w].gen
          /\ load' = [load EXCEPT ![w].pc = "done", ![w].debits = 0,
                                  ![w].wrote = load[w].gen,
                                  ![w].result = load[w].gen]
       \/ /\ load' = [load EXCEPT ![w].pc = "done", ![w].debits = 0,
                                  ![w].err = "StoreError"]
          /\ UNCHANGED <<insightsDoc, insightsData>>
    /\ isInsightsLoading' = FALSE
    /\ UNCHANGED <<refresh, aiCalls, history, transactions>>
    /\ UNCHANGED notInsights

\* the effect of InsightsScreen: without insightsData it calls the
\* loadOrGenerateInsights of the current render
ScreenEffect ==
    /\ insightsData = 0
    /\ load["screen"].pc \in {"idle", "done"}
    /\ isInsightsLoading \/ HasCapacity
    /\ loadOrGenerateInsights("screen", isInsightsLoading, transactions)
    /\ UNCHANGED <<insightsDoc, insightsData, refresh, aiCalls, history,
                   transactions>>
    /\ UNCHANGED notInsights

\* handleSend starts a turn: its handleFunctionCall keeps the
\* loadOrGenerateInsights of this render
ToolTurn ==
    /\ load["tool"].pc \in {"idle", "done"}
    /\ HasCapacity
    /\ load' = [load EXCEPT !["tool"] =
          [NoLoad EXCEPT !.pc = "turn", !.seen = isInsightsLoading,
                         !.debits = transactions]]
    /\ UNCHANGED <<insightsDoc, insightsData, isInsightsLoading, refresh, aiCalls,
                   history, transactions>>
    /\ UNCHANGED notInsights

\* the turn dispatches getSpendingAnalysis
ToolCall ==
    /\ load["tool"].pc = "turn"
    /\ loadOrGenerateInsights("tool", load["tool"].seen, load["tool"].debits)
    /\ UNCHANGED <<insightsDoc, insightsData, refresh, aiCalls, history,
                   transactions>>
    /\ UNCHANGED notInsights

\* refreshInsights is called: nothing happens while isInsightsLoading,
\* otherwise the documents of the insights collection are read
refreshInsights ==
    /\ refresh.pc \in {"idle", "done"}
    /\ IF isInsightsLoading
       THEN refresh' = [NoRefresh EXCEPT !.pc = "done", !.noop = TRUE,
                                        !.pre = insightsDoc]
       ELSE /\ HasCapacity
            /\ refresh' = [NoRefresh EXCEPT !.pc = "get", !.pre = insightsDoc,
                                            !.debits = transactions]
    /\ UNCHANGED <<insightsDoc, insightsData, isInsightsLoading, load, aiCalls,
                   history, transactions>>
    /\ UNCHANGED notInsights

\* the catch block of refreshInsights
RefreshCatch ==
    /\ refresh' = [refresh EXCEPT !.pc = "done", !.debits = 0,
                                  !.err = "StoreError"]
    /\ isInsightsLoading' = FALSE
    /\ UNCHANGED <<insightsDoc, insightsData, load>>

\* setInsightsData(null); await loadOrGenerateInsights()
RefreshReload(r) ==
    /\ refresh' = [r EXCEPT !.pc = "load", !.debits = 0]
    /\ insightsData' = 0
    /\ loadOrGenerateInsights("refresh", FALSE, r.debits)

\* insightsCollectionRef.get() returned or threw
RefreshGet ==
    /\ refresh.pc = "get"
    /\ \/ RefreshCatch
       \/ /\ insightsDoc # 0
          /\ refresh' = [refresh EXCEPT !.pc = "delete"]
          /\ UNCHANGED <<insightsDoc, insightsData, isInsightsLoading, load>>
       \/ /\ insightsDoc = 0
          /\ RefreshReload(refresh)
          /\ UNCHANGED insightsDoc
    /\ UNCHANGED <<aiCalls, history, transactions>>
    /\ UNCHANGED notInsights

\* batch.commit() returned or threw
RefreshDelete ==
    /\ refresh.pc = "delete"
    /\ \/ RefreshCatch
       \/ /\ insightsDoc' = DeleteAll(insightsDoc)
          /\ RefreshReload([refresh EXCEPT !.deleted = TRUE])
    /\ UNCHANGED <<aiCalls, history, transactions>>
    /\ UNCHANGED notInsights

\* the loadOrGenerateInsights awaited by refreshInsights returned
RefreshReturn ==
    /\ refresh.pc = "load"
    /\ load["refresh"].pc = "done"
    /\ refresh' = [refresh EXCEPT !.pc = "done"]
    /\ UNCHANGED <<insightsDoc, insightsData, isInsightsLoading, load, aiCalls,
                   history, transactions>>
    /\ UNCHANGED notInsights

\* a debit transaction of a is recorded in the store
NewDebit ==
    /\ history < MaxDebits
    /\ history' = history + 1
    /\ UNCHANGED <<insightsDoc, insightsData, isInsightsLoading, load, refresh,
                   aiCalls, transactions>>
    /\ UNCHANGED notInsights

\* loadUserAndData: setTransactions with the documents of the store
LoadTransactions ==
    /\ transactions # history
    /\ transactions' = history
    /\ UNCHANGED <<insightsDoc, insightsData, isInsightsLoading, load, refresh,
                   aiCalls, history>>
    /\ UNCHANGED notInsights

NextInsights ==
    \/ ScreenEffect
    \/ ToolTurn
    \/ ToolCall
    \/ \E w \in Callers : LoadGet(w)
    \/ \E w \in Callers : LoadAI(w)
    \/ \E w \in Callers : LoadSet(w)
    \/ refreshInsights
    \/ RefreshGet
    \/ RefreshDelete
    \/ RefreshReturn
    \/ NewDebit
    \/ LoadTransactions

\* the insights cache of session s1: the screen, the refresh button and the
\* getSpendingAnalysis tool
SpecInsights == Init /\ [][NextInsights]_vars

\* ================================================================= claims
EventIndex == 1..Len(events)
HasEvent(e, k) == \E i \in EventIndex : events[i] = Event(e, k)
AccountOperations ==
    {"transferMoney", "makeAccountPayment", "addCardToUser", "addLoanToUser",
     "requestPaymentExtension"}

\* C1: a sensitive tool call whose gate returned false never has its account
\* operation invoked: every dispatch of a sensitive call follows a successful
\* challenge for that very call, no denied call is ever dispatched, and an
\* account operation is in flight only for the call just dispatched.
C1_DeniedCallNeverInvoked ==
    /\ \A i \in EventIndex :
          (events[i].ev = "invoke"
           /\ functionCalls[events[i].k].name \in sensitiveActions)
          => /\ \E j \in 1..(i - 1) : events[j] = Event("verified", events[i].k)
             /\ ~HasEvent("denied", events[i].k)
    /\ op["s1"].name \in AccountOperations
          => /\ events # <<>>
             /\ events[Len(events)].ev = "invoke"
             /\ op["s1"].call = functionCalls[events[Len(events)].k]

\* C1 witness: a turn ended after the gate denied a sensitive call
C1_Witness ==
    /\ outcome = "normal"
    /\ \E k \in 1..Len(functionCalls) :
          /\ functionCalls[k].name \in sensitiveActions
          /\ HasEvent("denied", k)
          /\ ~HasEvent("invoke", k)

\* C2 (as claimed): every transfer that returns success moved the sender's
\* stored balance by -amount and the recipient's stored balance by +amount at
\* its commit, whatever other sessions did in between.
C2_BalanceConservation ==
    \A s \in Sessions :
        (op[s].name = "transferMoney" /\ op[s].res = "ok")
        => /\ op[s].dS = -op[s].call.amount
           /\ op[s].dR = op[s].call.amount

\* C3: no stored cash, card or loan balance is ever negative, and the funds
\* check is atomic with the debit: a committed transfer or payment saw a live
\* balance covering its amount, and one rejected inside the transaction for
\* insufficient funds saw a live balance below its amount.
C3_NoNegativeBalances ==
    /\ \A u \in Users : balance[u] >= 0
    /\ card.creditBalance >= 0
    /\ card.statementBalance >= 0
    /\ loan.remainingBalance >= 0
    /\ \A s \in Sessions :
          op[s].name \in {"transferMoney", "makeAccountPayment"}
          => /\ (op[s].res = "ok" \/ op[s].pc \in {"add1", "add2"})
                   => (op[s].seen >= op[s].paid /\ op[s].paid >= 0)
             /\ (op[s].err = "InsufficientFunds" /\ op[s].seen >= 0)
                   => op[s].seen < op[s].paid

\* C3 witness: two attempts of the same user, each covered by the balance
\* they were started against but not both; one committed, the other was
\* rejected inside its transaction
C3_Witness ==
    \E s \in Sessions : \E t \in Sessions \ {s} :
        /\ op[s].name \in {"transferMoney", "makeAccountPayment"}
        /\ op[t].name \in {"transferMoney", "makeAccountPayment"}
        /\ op[s].res = "ok" /\ op[s].paid > 0
        /\ op[t].res = "fail" /\ op[t].err = "InsufficientFunds"
        /\ op[t].seen >= 0
        /\ closure[t].balance >= op[t].paid
        /\ closure[t].balance < op[s].paid + op[t].paid

\* C4 (as claimed): the loan's stored remainingBalance never increases, never
\* goes below 0, and stays at 0 once the stored status is Paid Off.
C4_LoanPayoffMonotonic ==
    [][/\ loan'.remainingBalance <= loan.remainingBalance
       /\ loan'.remainingBalance >= 0
       /\ loan.status = "Paid Off" => loan'.remainingBalance = 0]_vars

\* C5 (as claimed): every successful extension leaves the stored due date
\* exactly 14 days after the value it had in the store before the update.
C5_ExtensionAddsFourteenDays ==
    \A s \in Sessions :
        (op[s].name = "requestPaymentExtension" /\ op[s].res = "ok")
        => op[s].dDue = ExtensionDays

\* C6: a denied call gets a cancelled response part {success: false}, is not
\* dispatched, and the loop goes on: the next requested call is challenged or
\* dispatched at once, or, after the last call, the second stream is opened.
C6_DenialCancelsAndContinues ==
    \A i \in EventIndex :
        events[i].ev = "denied"
        => LET k == events[i].k IN
           /\ i < Len(events) /\ events[i + 1] = Event("cancelled", k)
           /\ ~HasEvent("invoke", k)
           /\ \E j \in 1..Len(functionResponseParts) :
                 functionResponseParts[j] =
                    [name |-> functionCalls[k].name, success |-> "false",
                     cancelled |-> TRUE, k |-> k]
           /\ IF k < Len(functionCalls)
              THEN /\ i + 2 <= Len(events)
                   /\ events[i + 2].k = k + 1
                   /\ events[i + 2].ev \in {"confirm", "invoke"}
              ELSE /\ Len(secondPass) = 1
                   /\ Len(secondPass[1]) = Len(functionCalls)

\* C6 witness: the first of two calls was denied and the second was executed
C6_Witness ==
    /\ Len(functionCalls) = 2
    /\ HasEvent("denied", 1)
    /\ HasEvent("result", 2)

\* C7: the calls of a turn are handled one at a time in request order: an
\* event of call k (challenge, cancellation, dispatch, result) comes only
\* after every earlier call was cancelled or returned, the response parts are
\* in request order, and an operation runs only for the call being executed.
C7_CallsInRequestOrder ==
    /\ \A i \in EventIndex :
          \A q \in 1..(events[i].k - 1) :
             \E j \in 1..(i - 1) :
                events[j].k = q /\ events[j].ev \in {"cancelled", "result"}
    /\ \A j \in 1..Len(functionResponseParts) : functionResponseParts[j].k = j
    /\ op["s1"].pc \notin {"idle", "ret"}
          => /\ pc = "exec"
             /\ events[Len(events)] = Event("invoke", idx)

\* C7 witness: two calls were executed one after the other
C7_Witness ==
    /\ HasEvent("result", 1)
    /\ HasEvent("result", 2)
    /\ outcome = "normal"

\* C8: when a stream fails the turn ends with exactly one error message; if
\* it was the first stream, none of the calls it delivered was challenged or
\* dispatched and no second stream was opened; if it was the second, the
\* calls it delivered were not handled either.
C8_FailedStreamExecutesNothing ==
    outcome = "streamError"
    => /\ pc = "idle" /\ ~isLoading
       /\ events[Len(events)] = Event("chatError", 0)
       /\ Cardinality({i \in EventIndex : events[i].ev = "chatError"}) = 1
       /\ op["s1"] = NoOp
       /\ pass = 1 => /\ events = <<Event("user", 0), Event("chatError", 0)>>
                      /\ functionCalls = <<>>
                      /\ secondPass = <<>>
       /\ pass = 2 => /\ Len(secondPass) = 1
                      /\ \A i \in EventIndex : events[i].k <= Len(functionCalls)

\* C8 witness: the first stream failed after delivering a tool call
C8_Witness ==
    /\ outcome = "streamError"
    /\ pass = 1
    /\ collected # <<>>

\* C9: no second stream without tool calls; with tool calls, at most one
\* second stream, opened once a turn has handled them all, and its message
\* holds one part per requested call, named after it, in request order,
\* cancelled exactly for the denied calls.
C9_SecondPassCarriesAllParts ==
    /\ Len(secondPass) <= 1
    /\ functionCalls = <<>> => secondPass = <<>>
    /\ (outcome = "normal" /\ functionCalls # <<>>) => Len(secondPass) = 1
    /\ secondPass # <<>>
          => LET m == secondPass[1] IN
             /\ Len(m) = Len(functionCalls)
             /\ \A i \in 1..Len(m) :
                   /\ m[i].k = i
                   /\ m[i].name = functionCalls[i].name
                   /\ m[i].cancelled <=> HasEvent("denied", i)
                   /\ ~m[i].cancelled <=> HasEvent("result", i)

\* C9 witness: a second stream was opened with one cancelled and one
\* executed call
C9_Witness ==
    /\ Len(secondPass) = 1
    /\ Len(functionCalls) = 2
    /\ \E i, j \in 1..2 : secondPass[1][i].cancelled /\ ~secondPass[1][j].cancelled

\* C10 (as claimed): when a turn ends normally, no tool call returned by a
\* stream of that turn was left unhandled.
C10_NoRequestedCallDropped ==
    outcome = "normal" => dropped = <<>>

\* C11 (as claimed): no account operation throws to the orchestrator: every
\* call that was dispatched gets a result, the turn does not end in the catch
\* block because of a tool, and a turn that handled tool calls and ended
\* without a stream failure has sent one response part per requested call.
C11_OperationsNeverThrow ==
    /\ op["s1"].res # "threw"
    /\ outcome # "toolError"
    /\ (outcome \in {"normal", "toolError"} /\ functionCalls # <<>>)
          => /\ Len(secondPass) = 1
             /\ Len(secondPass[1]) = Len(functionCalls)

\* C12 (as claimed): a transfer that returned success wrote exactly a debit
\* owned by the sender and a credit owned by the recipient, with the amount of
\* the transfer and one timestamp, and no transfer that returned to its caller
\* wrote exactly one record.
C12_TransferRecordsPaired ==
    \A s \in Sessions :
        (op[s].name = "transferMoney" /\ op[s].pc = "ret")
        => /\ op[s].res = "ok"
                 => op[s].recs =
                       <<Transaction(Me, "debit", op[s].call.amount, op[s].timestamp),
                         Transaction(op[s].rcpt, "credit", op[s].call.amount,
                                     op[s].timestamp)>>
           /\ Len(op[s].recs) # 1
           /\ \A i \in 1..Len(op[s].recs) :
                 \E j \in 1..Len(log) : log[j] = op[s].recs[i]

\* C13 (as claimed): every transfer, card payment, loan payment or loan
\* disbursement that returned success appended at least one Transaction
\* record to the log.
C13_SuccessAppendsTransaction ==
    \A s \in Sessions :
        (op[s].name \in {"transferMoney", "makeAccountPayment", "addLoanToUser"}
         /\ op[s].res = "ok")
        => op[s].recs # <<>>

\* the recipient by the order of trust: account number, email, phone, display
\* name, username
RecipientInOrderOfTrust(rid) ==
    LET lookups ==
            <<Query("savingsAccountNumber", rid), Query("email", rid),
              Query("phone", rid), Query("name", rid),
              Query("username", ToLowerCase(rid))>>
        hits == {i \in 1..Len(lookups) : lookups[i] # {}} IN
    IF hits = {} THEN "none"
    ELSE LET first == CHOOSE i \in hits : \A j \in hits : i <= j IN
         CHOOSE u \in lookups[first] : TRUE

\* C14 (as claimed): the recipient of a transfer that passed the lookup is the
\* user matched by the earliest field in the order of trust, and a transfer is
\* refused as unknown or as a transfer to oneself only if that user is nobody
\* or the sender.
C14_RecipientByOrderOfTrust ==
    \A s \in Sessions :
        op[s].name = "transferMoney"
        => /\ op[s].rcpt # "-" => op[s].rcpt = RecipientInOrderOfTrust(op[s].call.to)
           /\ op[s].err = "RecipientNotFound"
                 => RecipientInOrderOfTrust(op[s].call.to) = "none"
           /\ op[s].err = "SelfTransfer"
                 => RecipientInOrderOfTrust(op[s].call.to) = Me

\* the step in which the payment of session s leaves its transaction
PaymentReturns(s, res) ==
    /\ op[s].name = "makeAccountPayment"
    /\ op[s].pc = "tx"
    /\ op'[s].res = res

\* C15: the step in which a makeAccountPayment call fails (account not found,
\* invalid amount, insufficient funds or a store error) changes neither the
\* stored cash balances nor the stored card nor the stored loan.
C15_FailedPaymentChangesNothing ==
    [][\A s \in Sessions :
          PaymentReturns(s, "fail")
          => (balance' = balance /\ card' = card /\ loan' = loan)]_vars

\* C15 witness: a "full" card payment failed inside its transaction because
\* the live cash balance was below the card's balance
C15_Witness ==
    /\ op["s1"].name = "makeAccountPayment"
    /\ op["s1"].call.accountType = "card"
    /\ op["s1"].call.paymentType = "full"
    /\ op["s1"].err = "InsufficientFunds"
    /\ balance[Me] < op["s1"].paid

\* C16: a successful card payment leaves the stored creditBalance and
\* statementBalance at 0 or above, and a successful "full" card payment
\* leaves both at exactly 0.
C16_FullCardPaymentZeroes ==
    [][\A s \in Sessions :
          (PaymentReturns(s, "ok") /\ op[s].call.accountType = "card")
          => /\ card'.creditBalance >= 0
             /\ card'.statementBalance >= 0
             /\ op[s].call.paymentType = "full"
                   => (card'.creditBalance = 0 /\ card'.statementBalance = 0)]_vars

\* C16 witness: a custom card payment above the card's balance succeeded
C16_Witness ==
    /\ op["s1"].name = "makeAccountPayment"
    /\ op["s1"].res = "ok"
    /\ op["s1"].call.accountType = "card"
    /\ op["s1"].call.paymentType = "custom"
    /\ op["s1"].paid > closure["s1"].card.creditBalance
    /\ card.creditBalance = 0

\* C17 (as claimed): a successful loan payment whose requested amount is
\* above the loan's stored remaining balance takes exactly that remaining
\* balance from the cash balance, leaves remainingBalance 0 and the status
\* Paid Off; a successful custom card payment takes the full custom amount.
C17_LoanPaymentClamped ==
    [][\A s \in Sessions :
          LET c == op[s].call
              above == LoanPaymentAmount(closure[s], c) > loan.remainingBalance IN
          PaymentReturns(s, "ok")
          => /\ (c.accountType = "loan" /\ above)
                => (/\ balance'[Me] = balance[Me] - loan.remainingBalance
                    /\ loan'.remainingBalance = 0
                    /\ loan'.status = "Paid Off")
             /\ (c.accountType = "card" /\ c.paymentType = "custom")
                => balance'[Me] = balance[Me] - c.amount]_vars

C19_LoanStoredIffCredited ==
    \A s \in Sessions :
        (op[s].name = "addLoanToUser" /\ op[s].pc = "ret")
        => /\ op[s].credited <=> op[s].stored
           /\ op[s].res = "ok" => (op[s].credited /\ op[s].stored)
           /\ op[s].err = "Rejected" => (~op[s].credited /\ ~op[s].stored)

\* C20 (as claimed): every response part of a turn, for an executed or for a
\* cancelled call, carries a boolean success.
C20_ResultHasBooleanSuccess ==
    \A i \in 1..Len(functionResponseParts) :
        functionResponseParts[i].success \in {"true", "false"}

\* C24: the gate keeps nothing between calls: a sensitive call is dispatched
\* only right after its own challenge succeeded, a success is followed at once
\* by the dispatch of that very call, every call is challenged at most once
\* (no retry after a denial, an error or a timeout), and only sensitive calls
\* are challenged.
C24_GateStateless ==
    /\ \A i \in EventIndex :
          (events[i].ev = "invoke"
           /\ functionCalls[events[i].k].name \in sensitiveActions)
          => /\ i >= 3
             /\ events[i - 1] = Event("verified", events[i].k)
             /\ events[i - 2] = Event("confirm", events[i].k)
    /\ \A i \in EventIndex :
          events[i].ev = "verified"
          => (i < Len(events) /\ events[i + 1] = Event("invoke", events[i].k))
    /\ \A i \in EventIndex :
          events[i].ev = "confirm"
          => /\ functionCalls[events[i].k].name \in sensitiveActions
             /\ \A j \in EventIndex : events[j] = events[i] => j = i
             /\ IF i = Len(events) THEN pc = "gate"
                ELSE events[i + 1] \in {Event("verified", events[i].k),
                                        Event("denied", events[i].k)}

\* C24 witness: two sensitive calls of one turn were each challenged and
\* verified
C24_Witness ==
    /\ Len(functionCalls) = 2
    /\ HasEvent("verified", 1)
    /\ HasEvent("verified", 2)

\* C25 (as claimed): no makeAccountPayment call that returned success debited
\* an amount of 0 or less.
C25_NoZeroPayment ==
    \A s \in Sessions :
        (op[s].name = "makeAccountPayment" /\ op[s].res = "ok") => op[s].paid > 0

\* C27 (as claimed): after an operation of the only writing session returned
\* success, the session's cached cash balance, card and loan equal the
\* store's.
C27_CacheEqualsStore ==
    (op["s1"].name \in AccountOperations /\ op["s1"].res = "ok")
    => /\ currentUser["s1"].balance = balance[Me]
       /\ currentUser["s1"].card = card
       /\ currentUser["s1"].loan = loan

\* C28 (as claimed): a transfer that returned success:false left the stored
\* balances of the sender and of the recipient as they were.
C28_FailedTransferChangesNothing ==
    \A s \in Sessions :
        (op[s].name = "transferMoney" /\ op[s].res = "fail")
        => (op[s].dS = 0 /\ op[s].dR = 0)

\* C29 (as claimed): every successful loan payment takes from the stored cash
\* balance exactly what it retires of the stored remainingBalance, so the sum
\* over any sequence of payments equals the debt retired.
C29_ChargedOnlyDebtRetired ==
    [][\A s \in Sessions :
          (PaymentReturns(s, "ok") /\ op[s].call.accountType = "loan")
          => balance[Me] - balance'[Me]
                = loan.remainingBalance - loan'.remainingBalance]_vars

\* C23 (as claimed): once the conversation is closed the turn in flight starts
\* no further gate challenge, no tool execution and no chat call.
C23_ClosedTurnStops ==
    [][~isOpen
       => /\ secondPass' = secondPass
          /\ \A i \in 1..Len(events') :
                i > Len(events) => events'[i].ev \notin {"confirm", "invoke"}]_vars

\* C30: isLoading is true exactly while a turn is in flight; a turn in flight
\* is never restarted by a new handleSend (its events only grow); and every
\* turn that started returns to Idle with isLoading false.
C30_TurnReturnsToIdle ==
    /\ [](isLoading <=> pc # "idle")
    /\ [][isLoading
          => /\ Len(events') >= Len(events)
             /\ SubSeq(events', 1, Len(events)) = events]_vars
    /\ (isLoading ~> ~isLoading)

\* C30 witness: a turn in which the gate denied one call and a later tool
\* operation threw is back at Idle
C30_Witness ==
    /\ ~isLoading
    /\ outcome = "toolError"
    /\ \E k \in 1..Len(functionCalls) : HasEvent("denied", k)

\* C21: a loadOrGenerateInsights call that found a persisted document returns
\* it, requests no analysis and writes nothing; one that found none while the
\* user had fewer than 3 debit transactions returns nothing, requests no
\* analysis and writes no document.
C21_CachedOrNothing ==
    \A w \in Callers :
        (load[w].pc = "done" /\ ~load[w].noop /\ load[w].err = "-")
        => /\ load[w].found > 0
              => /\ load[w].result = load[w].found
                 /\ load[w].gen = 0
                 /\ load[w].wrote = 0
           /\ (load[w].found = 0 /\ load[w].hist < MinDebits)
              => /\ load[w].result = 0
                 /\ load[w].gen = 0
                 /\ load[w].wrote = 0

\* C21 witness: with 2 debit transactions on record and no document, a call
\* has returned nothing
C21_Witness ==
    \E w \in Callers :
        /\ load[w].pc = "done" /\ ~load[w].noop /\ load[w].err = "-"
        /\ load[w].found = 0
        /\ load[w].hist = InitialDebits
        /\ load[w].result = 0
        /\ insightsDoc = 0

\* C22 (as claimed): at most one loadOrGenerateInsights call is in progress
\* at any time.
C22_OneGenerationAtATime ==
    Cardinality({w \in Callers : InProgress(w)}) <= 1

\* C26 (as claimed): every refreshInsights call that has completed removed
\* the document the cache held when it was invoked.
C26_RefreshAlwaysDeletes ==
    refresh.pc = "done" => (refresh.pre = 0 \/ insightsDoc # refresh.pre)

\* C26 (amended): a refreshInsights call that was not invoked while
\* isInsightsLoading and whose store calls succeeded has deleted the
\* document the cache held, cleared the state and run loadOrGenerateInsights:
\* from then on the cache holds a document written after the delete or
\* nothing; a call invoked while isInsightsLoading deletes nothing.
C26_RefreshDeletesUnlessBusy ==
    /\ (refresh.pc \in {"load", "done"} /\ ~refresh.noop /\ refresh.err = "-")
       => /\ refresh.pre = 0 \/ (refresh.deleted /\ insightsDoc # refresh.pre)
          /\ load["refresh"].pc # "idle" /\ ~load["refresh"].noop
    /\ refresh.noop => (~refresh.deleted /\ refresh.pc = "done")

\* C26 witness: a refresh replaced the document of the cache by a new one
C26_Witness ==
    /\ refresh.pc = "done" /\ ~refresh.noop /\ refresh.err = "-"
    /\ refresh.pre # 0
    /\ refresh.deleted
    /\ insightsDoc = load["refresh"].wrote
    /\ insightsDoc # 0

====
